---- MODULE Spec2Model ----
(***************************************************************************)
(* The relay server of the ESP32 voice bridge (src/server.js, lines        *)
(* 103-318: the paced-delivery revision).  One session per WebSocket       *)
(* connection accumulates binary frames in audioChunks; the text "done"    *)
(* starts an asynchronous finalize (temp-file write, transcription, reply  *)
(* generation, speech synthesis) whose result sendWavBufferPaced streams   *)
(* back in a burst phase and a paced phase.                                *)
(*                                                                         *)
(* Node runs every handler to its next await without interleaving: the     *)
(* variable running names the invocation whose synchronous segment is      *)
(* executing (0: the event loop is idle), and messages, socket events,     *)
(* promise settlements and timers are taken only when it is 0.             *)
(***************************************************************************)
EXTENDS Integers, Sequences, FiniteSets, TLC

VARIABLES
    conns,        \* the connections that exist in this run
    wsState,      \* ws.readyState of each connection
    audioChunks,  \* the session's accumulated binary frames (closure variable)
    task,         \* the invocations of the async 'message' handler that passed "done"
    running,      \* the invocation executing synchronously, or 0
    now,          \* Date.now(), in ms
    sent,         \* per connection: every ws.send, in order
    window,       \* per connection: frames received since the last accepted "done"
    closedWith,   \* per connection: the unfinalized frames held when 'close' fired
    msgCount,     \* per connection: messages received so far
    lateness,     \* how late a timer may fire, in ms (the host's scheduling)
    proc,         \* the Node process: running or exited, rejections nobody handled
    gs,           \* the streaming-recognition session (server.js 381-490)
    files,        \* the files written so far: name and the connection handled
    received      \* per connection: every binary frame and 'ready' received, in order

vars == <<conns, wsState, audioChunks, task, running, now, sent,
          window, closedWith, msgCount, lateness, proc, gs, files, received>>

----------------------------------------------------------------------------
(* Bounds of the model *)

MaxTasks == 2
MaxMsgs == 4
MaxChunks == 4
MaxJitter == 1
MaxElapsed == 1

(* Constants of the program *)

CHUNK_SIZE == 2048
HandshakeTimeoutMsDefault == 3000
HandshakePollMs == 50
DefaultSampleRate == 24000
DefaultBitsPerSample == 16
WavHeaderLen == 44

ConnIds == {1, 2}
TaskIds == 1..MaxTasks

Min(a, b) == IF a < b THEN a ELSE b
Max(a, b) == IF a > b THEN a ELSE b

----------------------------------------------------------------------------
(* Buffers.                                                                *)
(* An inbound frame is [id, len, conn]: len bytes received on connection   *)
(* conn as its id-th message, each byte identified by the frame and its     *)
(* offset.  A byte string built from frames is the sequence of its *)
(* non-empty frames, so two such strings are equal exactly when they hold  *)
(* the same bytes in the same order.                                       *)

RECURSIVE BufferConcat(_)
BufferConcat(list) ==
    IF list = <<>> THEN <<>>
    ELSE IF Head(list).len = 0 THEN BufferConcat(Tail(list))
         ELSE <<Head(list)>> \o BufferConcat(Tail(list))

RECURSIVE ByteLength(_)
ByteLength(buf) ==
    IF buf = <<>> THEN 0 ELSE Head(buf).len + ByteLength(Tail(buf))

(* A reply payload is [length, hdr]: hdr is what the bytes at offsets 22,  *)
(* 24 and 34 decode to when the payload has them, and OutOfBounds when the *)
(* payload ends before them (reading there is an error).                   *)
NullHeader == [channels |-> -1, sampleRate |-> -1, bitsPerSample |-> -1]
OutOfBounds == [channels |-> -2, sampleRate |-> -2, bitsPerSample |-> -2]
Payload(n, h) == [length |-> n, hdr |-> IF n < WavHeaderLen THEN OutOfBounds ELSE h]

parseWavHeaderUnchecked(buffer) == buffer.hdr
parseWavHeader(buffer) ==
    IF buffer.length < WavHeaderLen THEN NullHeader ELSE buffer.hdr

(* Math.round(chunkSizeBytes / (sampleRateHz * bytesPerSample) * 1000)     *)
(* with bytesPerSample = Math.max(1, bitsPerSample / 8), in eighths of a   *)
(* byte so that the division stays exact; Math.round rounds half up.       *)
(* A zero divisor gives Infinity in the program: InfinityMs stands for it. *)
InfinityMs == 1000000 * 1000

computeChunkIntervalMsFloor(chunkSizeBytes, sampleRateHz, bitsPerSample) ==
    LET d == sampleRateHz * Max(8, bitsPerSample)
    IN  IF d = 0 THEN InfinityMs ELSE (8000 * chunkSizeBytes) \div d
computeChunkIntervalMs(chunkSizeBytes, sampleRateHz, bitsPerSample) ==
    LET d == sampleRateHz * Max(8, bitsPerSample)
    IN  IF d = 0 THEN InfinityMs
        ELSE (2 * 8000 * chunkSizeBytes + d) \div (2 * d)

(* Math.ceil(length / chunkSize) *)
TotalChunks(length, chunkSize) == (length + chunkSize - 1) \div chunkSize

(* Math.max(1, Math.floor(totalChunks * burstPercent)), burstPercent = bn/bd *)
BurstChunksCeil(totalChunks, bn, bd) == Max(1, (totalChunks * bn + bd - 1) \div bd)
BurstChunks(totalChunks, bn, bd) == Max(1, (totalChunks * bn) \div bd)

----------------------------------------------------------------------------
(* Records *)

NoBuffer == [length |-> 0, hdr |-> NullHeader]

IdleTask ==
    [pc |-> "idle", conn |-> 0, fullBuf |-> <<>>, expect |-> <<>>, called |-> {},
     wavBuffer |-> NoBuffer,
     chunkSize |-> 0, burstNum |-> 0, burstDen |-> 1, handshakeTimeoutMs |-> 0,
     chunkIntervalMs |-> 0, totalChunks |-> 0, burstChunks |-> 0,
     readyReceived |-> FALSE, listening |-> FALSE, startWait |-> 0,
     chunkIndex |-> 0, wake |-> 0, aborted |-> FALSE, sawClosed |-> FALSE,
     failedAt |-> "none", doneMsg |-> 0]

(* doneMsg is the position, among the messages of the connection, of the   *)
(* "done" that started the invocation.                                     *)
(* failedAt is the await at which the invocation's pipeline threw.          *)
(* sawClosed records that one of the readyState checks of the delivery     *)
(* found the socket not OPEN; aborted, that the send loops threw.          *)
(* One ws.send: what was sent, when, by which invocation, and whether the  *)
(* socket was OPEN at that moment (ws drops a send on a socket that is not).*)
Msg(c, kind, idx, start, end, phase, t) ==
    [kind |-> kind, idx |-> idx, start |-> start, end |-> end,
     phase |-> phase, at |-> now, task |-> t, open |-> wsState[c] = "OPEN"]

(* A text send carries in idx the number of messages the connection had    *)
(* received when it was sent.                                              *)
TextMsg(c, kind, t) == [Msg(c, kind, msgCount[c], 0, 0, "text", t) EXCEPT !.at = 0]

SleepPcs == {"hs_sleep", "paced_sleep"}
AwaitPcs == {"writeFile", "stt", "chat", "tts", "ttsErrText", "arrayBuffer", "unlink"}
DeliveryPcs == {"sw_entry", "hs_check", "hs_sleep", "burst", "paced",
                "paced_sleep", "marker", "sw_finally", "returned"}
InProgress(t) == task[t].pc \in AwaitPcs \cup DeliveryPcs

IsOpen(c) == wsState[c] = "OPEN"

(* The process, the recognizer session and the file store before anything  *)
(* happened.                                                               *)
ProcUp == [up |-> TRUE, unhandled |-> 0]
NoStream == [sttTranscript |-> 0, sttFinalized |-> FALSE, stream |-> "none",
             written |-> <<>>, heard |-> <<>>, results |-> 0]
NoFiles == {}

(* A promise rejected with no handler attached.  The program installs no   *)
(* process.on('unhandledRejection') handler, so what happens is Node's     *)
(* default for the runtime in use: a warning (fatal = FALSE), or the       *)
(* rejection is thrown as an uncaught exception and the process exits.     *)
UnhandledRejection(p, fatal) ==
    [p EXCEPT !.unhandled = @ + 1, !.up = IF fatal THEN FALSE ELSE @]

(* tmp.tmpNameSync({postfix: '.wav'}): a fresh name for each invocation *)
TmpName(t) == [name |-> "tmp.wav", n |-> t]
WriteFile(fs, name, c) == fs \cup {[file |-> name, conn |-> c]}

----------------------------------------------------------------------------
(* Helpers on the state *)

SetTask(t, r) == task' = [task EXCEPT ![t] = r]

Send(c, m) == sent' = [sent EXCEPT ![c] = Append(@, m)]

FreeTasks == {t \in TaskIds : task[t].pc = "idle"}
NewTask == CHOOSE t \in FreeTasks : \A u \in FreeTasks : t <= u

(* onMessageForHandshake of every delivery listening on connection c:     *)
(* readyReceived = true when the message text is 'ready'.                 *)
NotifyHandshake(tk, c, text) ==
    [t \in TaskIds |->
        IF tk[t].conn = c /\ tk[t].listening /\ text = "ready"
        THEN [tk[t] EXCEPT !.readyReceived = TRUE]
        ELSE tk[t]]

----------------------------------------------------------------------------
(* The session: wss.on('connection'), ws.on('message'), ws.on('close')     *)

FrameLens == {0, CHUNK_SIZE}
Texts == {"done", "ready"}

(* ws.on('message') with a binary frame: audioChunks.push(data) *)
OnBinary(c, len) ==
    /\ proc.up /\ running = 0 /\ c \in conns /\ IsOpen(c)
    /\ msgCount[c] < MaxMsgs
    /\ LET frame == [id |-> msgCount[c] + 1, len |-> len, conn |-> c]
       IN  /\ audioChunks' = [audioChunks EXCEPT ![c] = Append(@, frame)]
           /\ window' = [window EXCEPT ![c] = Append(@, frame)]
           /\ received' = [received EXCEPT ![c] = Append(@, frame)]
    /\ msgCount' = [msgCount EXCEPT ![c] = @ + 1]
    /\ UNCHANGED <<conns, wsState, task, running, now, sent, closedWith, lateness, proc, gs, files>>

(* A 'ready' text in the record of what a connection received: no bytes *)
ReadyFrame(c) == [id |-> msgCount[c] + 1, len |-> 0, conn |-> c, text |-> "ready"]

(* ws.on('message') with a text frame, up to the handler's first await;    *)
(* the handshake listeners registered on the socket see the message too.   *)
OnText(c, text) ==
    /\ proc.up /\ running = 0 /\ c \in conns /\ IsOpen(c)
    /\ msgCount[c] < MaxMsgs
    /\ msgCount' = [msgCount EXCEPT ![c] = @ + 1]
    /\ IF text = "done"
       THEN IF Len(audioChunks[c]) = 0
            THEN /\ Send(c, TextMsg(c, "noaudio", 0))
                 /\ UNCHANGED <<task, window>>
            ELSE /\ FreeTasks # {}
                 /\ SetTask(NewTask,
                        [IdleTask EXCEPT !.pc = "writeFile", !.conn = c,
                                         !.doneMsg = msgCount[c] + 1,
                                         !.fullBuf = BufferConcat(audioChunks[c]),
                                         !.expect = BufferConcat(window[c])])
                 /\ window' = [window EXCEPT ![c] = <<>>]
                 /\ UNCHANGED sent
       ELSE /\ task' = NotifyHandshake(task, c, text)
            /\ UNCHANGED <<sent, window>>
    /\ received' = IF text = "ready"
                   THEN [received EXCEPT ![c] = Append(@, ReadyFrame(c))]
                   ELSE received
    /\ UNCHANGED <<conns, wsState, audioChunks, running, now, closedWith, lateness,
                   proc, gs, files>>

(* The peer's close frame arrives: readyState leaves OPEN. *)
SocketClosing(c) ==
    /\ proc.up /\ running = 0 /\ c \in conns /\ IsOpen(c)
    /\ wsState' = [wsState EXCEPT ![c] = "CLOSING"]
    /\ UNCHANGED <<conns, audioChunks, task, running, now, sent,
                   window, closedWith, msgCount, lateness, proc, gs, files, received>>

(* ws.on('close'): audioChunks = [] *)
OnClose(c) ==
    /\ proc.up /\ running = 0 /\ c \in conns /\ wsState[c] = "CLOSING"
    /\ wsState' = [wsState EXCEPT ![c] = "CLOSED"]
    /\ closedWith' = [closedWith EXCEPT ![c] = window[c]]
    /\ audioChunks' = [audioChunks EXCEPT ![c] = <<>>]
    /\ UNCHANGED <<conns, task, running, now, sent, window, msgCount, lateness,
                   proc, gs, files, received>>

(* catch (err) { ws.send('Error: ' + ...) } finally { audioChunks = [] } *)
CatchFinally(t) ==
    /\ Send(task[t].conn, TextMsg(task[t].conn, "error", t))
    /\ audioChunks' = [audioChunks EXCEPT ![task[t].conn] = <<>>]
    /\ SetTask(t, [task[t] EXCEPT !.pc = "finished", !.failedAt = task[t].pc])

(* await fs.writeFile(wavFile, fullBuf) settles; it is outside the try. *)
WriteFileResolve(t) ==
    /\ proc.up /\ running = 0 /\ task[t].pc = "writeFile"
    /\ SetTask(t, [task[t] EXCEPT !.pc = "stt", !.called = @ \cup {"stt"}])
    /\ files' = WriteFile(files, TmpName(t), task[t].conn)
    /\ UNCHANGED <<conns, wsState, audioChunks, running, now, sent,
                   window, closedWith, msgCount, lateness, proc, gs, received>>

(* The rejection leaves the async handler: no catch, no finally, and the   *)
(* promise the handler returned is handled by nobody.                      *)
WriteFileReject(t, fatal) ==
    /\ proc.up /\ running = 0 /\ task[t].pc = "writeFile"
    /\ SetTask(t, [task[t] EXCEPT !.pc = "rejected", !.failedAt = "writeFile"])
    /\ proc' = UnhandledRejection(proc, fatal)
    /\ UNCHANGED <<conns, wsState, audioChunks, running, now, sent,
                   window, closedWith, msgCount, lateness, gs, files, received>>

(* await openai.audio.transcriptions.create(...) *)
SttResolve(t) ==
    /\ proc.up /\ running = 0 /\ task[t].pc = "stt"
    /\ SetTask(t, [task[t] EXCEPT !.pc = "chat", !.called = @ \cup {"chat"}])
    /\ UNCHANGED <<conns, wsState, audioChunks, running, now, sent,
                   window, closedWith, msgCount, lateness, proc, gs, files, received>>

(* await openai.chat.completions.create(...) *)
ChatResolve(t) ==
    /\ proc.up /\ running = 0 /\ task[t].pc = "chat"
    /\ SetTask(t, [task[t] EXCEPT !.pc = "tts", !.called = @ \cup {"tts"}])
    /\ UNCHANGED <<conns, wsState, audioChunks, running, now, sent,
                   window, closedWith, msgCount, lateness, proc, gs, files, received>>

(* await fetch(.../audio/speech): ttsRes.ok or not *)
TtsResolve(t, ok) ==
    /\ proc.up /\ running = 0 /\ task[t].pc = "tts"
    /\ SetTask(t, [task[t] EXCEPT !.pc = IF ok THEN "arrayBuffer" ELSE "ttsErrText"])
    /\ UNCHANGED <<conns, wsState, audioChunks, running, now, sent,
                   window, closedWith, msgCount, lateness, proc, gs, files, received>>

(* A collaborator await inside the try rejects, or ttsRes.text() settles   *)
(* and 'TTS failed' is thrown: the catch and the finally run.              *)
StageFails(t) ==
    /\ proc.up /\ running = 0
    /\ task[t].pc \in {"stt", "chat", "tts", "ttsErrText", "arrayBuffer", "unlink"}
    /\ CatchFinally(t)
    /\ UNCHANGED <<conns, wsState, running, now, window, closedWith,
                   msgCount, lateness, proc, gs, files, received>>

----------------------------------------------------------------------------
(* sendWavBufferPaced(ws, wavBuffer, options), one action per synchronous   *)
(* stretch of it.                                                          *)

(* The options and the payload of one call *)
StartSend(r, buf, chunkSize, bn, bd, timeoutMs) ==
    [r EXCEPT !.pc = "sw_entry", !.wavBuffer = buf, !.chunkSize = chunkSize,
              !.burstNum = bn, !.burstDen = bd, !.handshakeTimeoutMs = timeoutMs]

(* await ttsRes.arrayBuffer() resolves: the handler calls                  *)
(* sendWavBufferPaced(ws, wavBuffer, {chunkSize: CHUNK_SIZE, burstPercent: 0.8}) *)
ArrayBufferResolve(t, buf) ==
    /\ proc.up /\ running = 0 /\ task[t].pc = "arrayBuffer"
    /\ SetTask(t, StartSend(task[t], buf, CHUNK_SIZE, 4, 5, HandshakeTimeoutMsDefault))
    /\ running' = t
    /\ UNCHANGED <<conns, wsState, audioChunks, now, sent,
                   window, closedWith, msgCount, lateness, proc, gs, files, received>>

(* Lines 151-183: the entry check, the plan, the listener, startWait *)
PlanOf(r) ==
    LET header == parseWavHeader(r.wavBuffer)
        sampleRate == IF header # NullHeader THEN header.sampleRate ELSE DefaultSampleRate
        bitsPerSample == IF header # NullHeader THEN header.bitsPerSample
                         ELSE DefaultBitsPerSample
        total == TotalChunks(r.wavBuffer.length, r.chunkSize)
    IN  [r EXCEPT !.chunkIntervalMs =
                      computeChunkIntervalMs(r.chunkSize, sampleRate, bitsPerSample),
                  !.totalChunks = total,
                  !.burstChunks = BurstChunks(total, r.burstNum, r.burstDen)]

SwEntry(t) ==
    /\ running = t /\ task[t].pc = "sw_entry"
    /\ IF ~IsOpen(task[t].conn)
       THEN SetTask(t, [task[t] EXCEPT !.pc = "returned", !.sawClosed = TRUE])
       ELSE SetTask(t, [PlanOf(task[t]) EXCEPT !.pc = "hs_check",
                            !.readyReceived = FALSE, !.listening = TRUE,
                            !.startWait = now])
    /\ UNCHANGED <<conns, wsState, audioChunks, running, now, sent,
                   window, closedWith, msgCount, lateness, proc, gs, files, received>>

(* Line 184: while (!readyReceived && Date.now() - startWait < timeout) *)
HandshakeSkipped(r) == FALSE
HandshakeWaits(r) ==
    ~r.readyReceived /\ now - r.startWait < r.handshakeTimeoutMs

(* Lines 184-193: one evaluation of the wait loop *)
HsCheck(t) ==
    /\ running = t /\ task[t].pc = "hs_check"
    /\ IF HandshakeWaits(task[t]) /\ IsOpen(task[t].conn)
       THEN /\ SetTask(t, [task[t] EXCEPT !.pc = "hs_sleep",
                                          !.wake = now + HandshakePollMs])
            /\ running' = 0
       ELSE /\ SetTask(t, [task[t] EXCEPT !.pc = "burst", !.chunkIndex = 0,
                                !.sawClosed = HandshakeWaits(task[t])])
            /\ UNCHANGED running
    /\ UNCHANGED <<conns, wsState, audioChunks, now, sent,
                   window, closedWith, msgCount, lateness, proc, gs, files, received>>

(* setTimeout fires no earlier than asked, the earliest timer first *)
TimerDue(t) ==
    /\ proc.up /\ running = 0 /\ task[t].pc \in SleepPcs
    /\ \A u \in TaskIds : task[u].pc \in SleepPcs => task[t].wake <= task[u].wake

HsWake(t, jitter) ==
    /\ TimerDue(t) /\ task[t].pc = "hs_sleep"
    /\ now' = Max(now, task[t].wake) + jitter
    /\ SetTask(t, [task[t] EXCEPT !.pc = "hs_check"])
    /\ running' = t
    /\ UNCHANGED <<conns, wsState, audioChunks, sent,
                   window, closedWith, msgCount, lateness, proc, gs, files, received>>

(* The polls of the wait loop that find nothing new (no 'ready', the socket *)
(* OPEN, the timeout not reached) change only the clock.  HsIdle takes all *)
(* of them that remain in one step; HsNews is the poll that ends the wait. *)
PollTime(r) == Max(now, r.wake)

IdlePoll(r, at) ==
    ~r.readyReceived /\ IsOpen(r.conn) /\ at - r.startWait < r.handshakeTimeoutMs

HsIdle(t) ==
    /\ TimerDue(t) /\ task[t].pc = "hs_sleep"
    /\ IdlePoll(task[t], PollTime(task[t]))
    /\ LET more == (task[t].handshakeTimeoutMs - 1
                        - (PollTime(task[t]) - task[t].startWait)) \div HandshakePollMs
           last == PollTime(task[t]) + HandshakePollMs * more
       IN  /\ now' = last
           /\ SetTask(t, [task[t] EXCEPT !.wake = last + HandshakePollMs])
    /\ UNCHANGED <<conns, wsState, audioChunks, running, sent,
                   window, closedWith, msgCount, lateness, proc, gs, files, received>>

HsNews(t, jitter) ==
    /\ task[t].pc = "hs_sleep"
    /\ ~IdlePoll(task[t], PollTime(task[t]) + jitter)
    /\ HsWake(t, jitter)

(* wavBuffer.slice(start, end) of chunk chunkIndex *)
ChunkStart(r) == r.chunkIndex * r.chunkSize
ChunkEndUnclamped(r) == ChunkStart(r) + r.chunkSize
ChunkEnd(r) == Min(ChunkStart(r) + r.chunkSize, r.wavBuffer.length)

(* Line 196 and line 206: the transport check before each chunk *)
BurstMaySendAlways(r) == TRUE
BurstMaySendIfReady(r) == IsOpen(r.conn) /\ r.readyReceived
BurstMaySend(r) == IsOpen(r.conn)
PacedMaySend(r) == IsOpen(r.conn)

(* Lines 195-202: one iteration of the burst loop *)
BurstStep(t) ==
    /\ running = t /\ task[t].pc = "burst"
    /\ IF task[t].chunkIndex < task[t].burstChunks
       THEN IF ~BurstMaySend(task[t])
            THEN /\ SetTask(t, [task[t] EXCEPT !.pc = "sw_finally", !.aborted = TRUE,
                                               !.sawClosed = TRUE])
                 /\ UNCHANGED sent
            ELSE /\ Send(task[t].conn,
                         Msg(task[t].conn, "bin", task[t].chunkIndex,
                             ChunkStart(task[t]), ChunkEnd(task[t]), "burst", t))
                 /\ SetTask(t, [task[t] EXCEPT !.chunkIndex = @ + 1])
       ELSE /\ SetTask(t, [task[t] EXCEPT !.pc = "paced"])
            /\ UNCHANGED sent
    /\ UNCHANGED <<conns, wsState, audioChunks, running, now,
                   window, closedWith, msgCount, lateness, proc, gs, files, received>>

(* Line 214: Math.max(0, chunkIntervalMs - elapsed) *)
ToSleepNone(chunkIntervalMs, elapsed) == 0
ToSleepShort(chunkIntervalMs, elapsed) == Max(0, chunkIntervalMs - elapsed - 1)
ToSleep(chunkIntervalMs, elapsed) == Max(0, chunkIntervalMs - elapsed)

(* Lines 205-216: one iteration of the paced loop, to its await *)
PacedStep(t, elapsed) ==
    /\ running = t /\ task[t].pc = "paced"
    /\ IF task[t].chunkIndex < task[t].totalChunks
       THEN IF ~PacedMaySend(task[t])
            THEN /\ SetTask(t, [task[t] EXCEPT !.pc = "sw_finally", !.aborted = TRUE,
                                               !.sawClosed = TRUE])
                 /\ UNCHANGED <<sent, now, running>>
            ELSE /\ Send(task[t].conn,
                         Msg(task[t].conn, "bin", task[t].chunkIndex,
                             ChunkStart(task[t]), ChunkEnd(task[t]), "paced", t))
                 /\ now' = now + elapsed
                 /\ IF ToSleep(task[t].chunkIntervalMs, elapsed) > 0
                    THEN /\ SetTask(t, [task[t] EXCEPT !.pc = "paced_sleep",
                                !.wake = now + elapsed
                                         + ToSleep(task[t].chunkIntervalMs, elapsed)])
                         /\ running' = 0
                    ELSE /\ SetTask(t, [task[t] EXCEPT !.chunkIndex = @ + 1])
                         /\ UNCHANGED running
       ELSE /\ elapsed = 0
            /\ SetTask(t, [task[t] EXCEPT !.pc = "marker"])
            /\ UNCHANGED <<sent, now, running>>
    /\ UNCHANGED <<conns, wsState, audioChunks, window, closedWith, msgCount,
                   lateness, proc, gs, files, received>>

(* await sleepMs(toSleep) resolves: chunkIndex++ *)
PacedWake(t, jitter) ==
    /\ TimerDue(t) /\ task[t].pc = "paced_sleep"
    /\ now' = Max(now, task[t].wake) + jitter
    /\ SetTask(t, [task[t] EXCEPT !.pc = "paced", !.chunkIndex = @ + 1])
    /\ running' = t
    /\ UNCHANGED <<conns, wsState, audioChunks, sent,
                   window, closedWith, msgCount, lateness, proc, gs, files, received>>

(* Lines 218-222: the completion marker *)
MarkerStep(t) ==
    /\ running = t /\ task[t].pc = "marker"
    /\ IF IsOpen(task[t].conn)
       THEN Send(task[t].conn, Msg(task[t].conn, "marker", 0, 0, 0, "done", t))
       ELSE UNCHANGED sent
    /\ SetTask(t, [task[t] EXCEPT !.pc = "sw_finally",
                                  !.sawClosed = @ \/ ~IsOpen(task[t].conn)])
    /\ UNCHANGED <<conns, wsState, audioChunks, running, now,
                   window, closedWith, msgCount, lateness, proc, gs, files, received>>

SwFinallyKeepsListener(t) ==
    /\ running = t /\ task[t].pc = "sw_finally"
    /\ SetTask(t, [task[t] EXCEPT !.pc = "returned"])
    /\ UNCHANGED <<conns, wsState, audioChunks, running, now, sent,
                   window, closedWith, msgCount, lateness, proc, gs, files, received>>

(* Lines 223-227: catch, then finally removeListener *)
SwFinally(t) ==
    /\ running = t /\ task[t].pc = "sw_finally"
    /\ SetTask(t, [task[t] EXCEPT !.pc = "returned", !.listening = FALSE])
    /\ UNCHANGED <<conns, wsState, audioChunks, running, now, sent,
                   window, closedWith, msgCount, lateness, proc, gs, files, received>>

(* Lines 291-294: the handler resumes and awaits fs.unlink(wavFile) *)
AfterSend(t) ==
    /\ running = t /\ task[t].pc = "returned"
    /\ SetTask(t, [task[t] EXCEPT !.pc = "unlink"])
    /\ running' = 0
    /\ UNCHANGED <<conns, wsState, audioChunks, now, sent,
                   window, closedWith, msgCount, lateness, proc, gs, files, received>>

(* Lines 294-305: fs.unlink resolves; finally { audioChunks = [] } *)
UnlinkResolve(t) ==
    /\ proc.up /\ running = 0 /\ task[t].pc = "unlink"
    /\ SetTask(t, [task[t] EXCEPT !.pc = "finished"])
    /\ audioChunks' = [audioChunks EXCEPT ![task[t].conn] = <<>>]
    /\ UNCHANGED <<conns, wsState, running, now, sent,
                   window, closedWith, msgCount, lateness, proc, gs, files, received>>

----------------------------------------------------------------------------
(* The reply payloads the speech-synthesis service may return *)

PcmHeader == [channels |-> 1, sampleRate |-> DefaultSampleRate,
              bitsPerSample |-> DefaultBitsPerSample]
NarrowHeader == [channels |-> 1, sampleRate |-> 8000, bitsPerSample |-> 8]

ReplyLens == {0, 30, 4 * CHUNK_SIZE + 1808}
Replies == {Payload(n, PcmHeader) : n \in ReplyLens}

----------------------------------------------------------------------------
(* The server with one connection *)

Init ==
    /\ conns = {1}
    /\ wsState = [c \in ConnIds |-> IF c = 1 THEN "OPEN" ELSE "CLOSED"]
    /\ audioChunks = [c \in ConnIds |-> <<>>]
    /\ task = [t \in TaskIds |-> IdleTask]
    /\ running = 0
    /\ now = 0
    /\ sent = [c \in ConnIds |-> <<>>]
    /\ window = [c \in ConnIds |-> <<>>]
    /\ closedWith = [c \in ConnIds |-> <<>>]
    /\ msgCount = [c \in ConnIds |-> 0]
    /\ lateness = 0
    /\ proc = ProcUp
    /\ gs = NoStream
    /\ files = NoFiles
    /\ received = [c \in ConnIds |-> <<>>]

Deliver ==
    \E t \in TaskIds :
        \/ SwEntry(t)
        \/ HsCheck(t)
        \/ HsIdle(t)
        \/ \E j \in 0..lateness : HsNews(t, j)
        \/ BurstStep(t)
        \/ \E e \in 0..MaxElapsed : PacedStep(t, e)
        \/ \E j \in 0..lateness : PacedWake(t, j)
        \/ MarkerStep(t)
        \/ SwFinally(t)

Next ==
    \/ \E c \in ConnIds, len \in FrameLens : OnBinary(c, len)
    \/ \E c \in ConnIds, text \in Texts : OnText(c, text)
    \/ \E c \in ConnIds : SocketClosing(c)
    \/ \E c \in ConnIds : OnClose(c)
    \/ \E t \in TaskIds : WriteFileResolve(t)
    \/ \E t \in TaskIds, fatal \in BOOLEAN : WriteFileReject(t, fatal)
    \/ \E t \in TaskIds : SttResolve(t)
    \/ \E t \in TaskIds : ChatResolve(t)
    \/ \E t \in TaskIds, ok \in BOOLEAN : TtsResolve(t, ok)
    \/ \E t \in TaskIds : StageFails(t)
    \/ \E t \in TaskIds, buf \in Replies : ArrayBufferResolve(t, buf)
    \/ Deliver
    \/ \E t \in TaskIds : AfterSend(t)
    \/ \E t \in TaskIds : UnlinkResolve(t)

Spec == Init /\ [][Next]_vars

----------------------------------------------------------------------------
(* One call of sendWavBufferPaced on its own: any payload, any options,    *)
(* the socket in any state, the client sending 'ready' or closing at any   *)
(* moment, timers up to MaxJitter ms late.                                 *)

ChunkSizes == {1, 48, CHUNK_SIZE}
BurstPercents == {<<1, 2>>, <<4, 5>>, <<1, 1>>}
Remainders(S) == {r \in {0, 1, S - 1} : r < S}
Lengths(S) ==
    {n \in {q * S + r : q \in 0..MaxChunks, r \in Remainders(S)} :
        TotalChunks(n, S) <= MaxChunks}
Payloads(S) == {Payload(n, h) : n \in Lengths(S), h \in {PcmHeader, NarrowHeader}}

(* The options of the call in the handler, with the replies of the        *)
(* session; and other options, with payloads of up to MaxChunks chunks.    *)
CallOptions ==
    [chunkSize |-> CHUNK_SIZE, burst |-> <<4, 5>>,
     handshakeTimeoutMs |-> HandshakeTimeoutMsDefault]
OtherOptions ==
    {[chunkSize |-> S, burst |-> b, handshakeTimeoutMs |-> ms] :
        S \in ChunkSizes, b \in BurstPercents, ms \in {0, 2 * HandshakePollMs}}
SendInputs ==
    {<<CallOptions, buf>> : buf \in Replies}
    \cup UNION {{<<o, buf>> : buf \in Payloads(o.chunkSize)} : o \in OtherOptions}

InitSend(inputs, lates) ==
    /\ conns = {1}
    /\ wsState \in {[c \in ConnIds |-> IF c = 1 THEN st ELSE "CLOSED"] :
                        st \in {"OPEN", "CLOSING", "CLOSED"}}
    /\ audioChunks = [c \in ConnIds |-> <<>>]
    /\ \E in \in inputs :
          task = [t \in TaskIds |->
                    IF t = 1
                    THEN StartSend([IdleTask EXCEPT !.conn = 1], in[2],
                                   in[1].chunkSize, in[1].burst[1], in[1].burst[2],
                                   in[1].handshakeTimeoutMs)
                    ELSE IdleTask]
    /\ running = 1
    /\ now = 0
    /\ sent = [c \in ConnIds |-> <<>>]
    /\ window = [c \in ConnIds |-> <<>>]
    /\ closedWith = [c \in ConnIds |-> <<>>]
    /\ msgCount = [c \in ConnIds |-> 0]
    /\ lateness \in lates
    /\ proc = ProcUp
    /\ gs = NoStream
    /\ files = NoFiles
    /\ received = [c \in ConnIds |-> <<>>]

InitPaced == InitSend(SendInputs, {MaxJitter})

(* The client sends 'ready' (once) *)
ClientReady == msgCount[1] = 0 /\ OnText(1, "ready")

(* The steps of the call itself: its synchronous stretches and its timers *)
SendSteps ==
    \/ SwEntry(1)
    \/ HsCheck(1)
    \/ \E j \in 0..lateness : HsWake(1, j)
    \/ BurstStep(1)
    \/ \E e \in 0..MaxElapsed : PacedStep(1, e)
    \/ \E j \in 0..lateness : PacedWake(1, j)
    \/ MarkerStep(1)
    \/ SwFinally(1)

NextPaced ==
    \/ SendSteps
    \/ ClientReady
    \/ SocketClosing(1)
    \/ OnClose(1)

SpecPaced == InitPaced /\ [][NextPaced]_vars

(* Node runs a started stretch to its await and fires every armed timer;  *)
(* nothing obliges the client to send 'ready' or to close.                 *)
FairSpecPaced == SpecPaced /\ WF_vars(SendSteps)

----------------------------------------------------------------------------
(* The streaming-recognition server (src/server.js 381-490): binary frames *)
(* are written to a recognizer stream, "done" ends the stream and arms a   *)
(* delayed reply callback (setTimeout, 800 ms) that asks for the reply,    *)
(* synthesizes it and sends it with sendNextChunk.                         *)

MaxResults == 2

ReplyDelayMs == 800
StreamChunkIntervalMs == 39
BURST_CHUNKS == 60

(* addWavHeader(rawPcmBuffer, {sampleRate: 24000, numChannels: 1, bitDepth: 16}) *)
WavOf(rawLen) == Payload(WavHeaderLen + rawLen, PcmHeader)
RawLens == {0, 100}

StreamAlive == gs.stream \in {"open", "ended"}

(* ws.on('message') of lines 416-485 *)
StreamOnMessage(c, isBinary, len, text) ==
    /\ proc.up /\ running = 0 /\ c \in conns /\ IsOpen(c)
    /\ msgCount[c] < MaxMsgs
    /\ msgCount' = [msgCount EXCEPT ![c] = @ + 1]
    /\ IF isBinary
       THEN LET frame == [id |-> msgCount[c] + 1, len |-> len, conn |-> c]
                heard == IF gs.stream = "open" THEN Append(gs.heard, frame)
                         ELSE gs.heard
            IN  /\ gs' = IF ~gs.sttFinalized
                         THEN [gs EXCEPT !.written = Append(@, frame), !.heard = heard]
                         ELSE [gs EXCEPT !.heard = heard]
                /\ UNCHANGED task
       ELSE IF text = "done"
            THEN /\ FreeTasks # {}
                 /\ gs' = [gs EXCEPT !.sttFinalized = TRUE,
                                     !.stream = IF @ = "open" THEN "ended" ELSE @]
                 /\ SetTask(NewTask, [IdleTask EXCEPT !.pc = "gs_timer", !.conn = c,
                                                     !.doneMsg = msgCount[c] + 1,
                                                     !.wake = now + ReplyDelayMs])
            ELSE UNCHANGED <<gs, task>>
    /\ UNCHANGED <<conns, wsState, audioChunks, running, now, sent, window,
                   closedWith, lateness, proc, files, received>>

(* recognizeStream.on('data') of lines 402-414 *)
StreamOnData(c, isFinal) ==
    /\ proc.up /\ running = 0 /\ c \in conns
    /\ StreamAlive /\ gs.written # <<>> /\ gs.results < MaxResults
    /\ Send(c, TextMsg(c, IF isFinal THEN "final" ELSE "interim", 0))
    /\ gs' = [gs EXCEPT !.results = @ + 1,
                        !.sttTranscript = IF isFinal THEN @ + 1 ELSE @,
                        !.sttFinalized = IF isFinal THEN TRUE ELSE @]
    /\ UNCHANGED <<conns, wsState, audioChunks, task, running, now, window,
                   closedWith, msgCount, lateness, proc, files, received>>

(* recognizeStream.on('error') of lines 397-401: ws.send, ws.close() *)
StreamOnError(c) ==
    /\ proc.up /\ running = 0 /\ c \in conns
    /\ StreamAlive
    /\ Send(c, TextMsg(c, "sttError", 0))
    /\ gs' = [gs EXCEPT !.stream = "errored"]
    /\ wsState' = [wsState EXCEPT ![c] = IF @ = "OPEN" THEN "CLOSING" ELSE @]
    /\ UNCHANGED <<conns, audioChunks, task, running, now, window,
                   closedWith, msgCount, lateness, proc, files, received>>

(* ws.on('close') of lines 487-490: recognizeStream.destroy() *)
StreamOnClose(c) ==
    /\ proc.up /\ running = 0 /\ c \in conns /\ wsState[c] = "CLOSING"
    /\ wsState' = [wsState EXCEPT ![c] = "CLOSED"]
    /\ gs' = [gs EXCEPT !.stream = "destroyed"]
    /\ UNCHANGED <<conns, audioChunks, task, running, now, sent, window,
                   closedWith, msgCount, lateness, proc, files, received>>

StreamSleepPcs == {"gs_timer", "gs_paced"}

StreamTimerDue(t) ==
    /\ proc.up /\ running = 0 /\ task[t].pc \in StreamSleepPcs
    /\ \A u \in TaskIds : task[u].pc \in StreamSleepPcs => task[t].wake <= task[u].wake

(* Lines 425-444: the delayed callback starts *)
ReplyCallback(t) ==
    /\ StreamTimerDue(t) /\ task[t].pc = "gs_timer"
    /\ now' = Max(now, task[t].wake)
    /\ IF gs.sttTranscript = 0
       THEN /\ Send(task[t].conn, TextMsg(task[t].conn, "nospeech", t))
            /\ SetTask(t, [task[t] EXCEPT !.pc = "finished"])
       ELSE /\ SetTask(t, [task[t] EXCEPT !.pc = "gs_chat", !.called = @ \cup {"chat"}])
            /\ UNCHANGED sent
    /\ UNCHANGED <<conns, wsState, audioChunks, running, window,
                   closedWith, msgCount, lateness, proc, gs, files, received>>

(* Lines 434-448: await fetch(...) resolves, ok or not *)
StreamChatResolve(t, ok) ==
    /\ proc.up /\ running = 0 /\ task[t].pc = "gs_chat"
    /\ SetTask(t, [task[t] EXCEPT !.pc = IF ok THEN "gs_chatJson" ELSE "gs_chatErrText"])
    /\ UNCHANGED <<conns, wsState, audioChunks, running, now, sent, window,
                   closedWith, msgCount, lateness, proc, gs, files, received>>

(* Lines 449-454: await openaiResponse.json() resolves;                    *)
(* synthesizeSpeechGoogle(replyText) is called                             *)
StreamJsonResolve(t) ==
    /\ proc.up /\ running = 0 /\ task[t].pc = "gs_chatJson"
    /\ SetTask(t, [task[t] EXCEPT !.pc = "gs_tts", !.called = @ \cup {"tts"}])
    /\ UNCHANGED <<conns, wsState, audioChunks, running, now, sent, window,
                   closedWith, msgCount, lateness, proc, gs, files, received>>

(* An await of the callback rejects, or 'ChatGPT failed' is thrown after   *)
(* openaiResponse.text(): the callback has no try/catch, its promise is    *)
(* handled by nobody, nothing is sent to the client.                       *)
StreamCallbackThrows(t, fatal) ==
    /\ proc.up /\ running = 0
    /\ task[t].pc \in {"gs_chat", "gs_chatErrText", "gs_chatJson", "gs_tts"}
    /\ SetTask(t, [task[t] EXCEPT !.pc = "rejected", !.failedAt = task[t].pc])
    /\ proc' = UnhandledRejection(proc, fatal)
    /\ UNCHANGED <<conns, wsState, audioChunks, running, now, sent, window,
                   closedWith, msgCount, lateness, gs, files, received>>

(* Lines 454-461, 481: the synthesized reply arrives; sendNextChunk() *)
StreamTtsResolve(t, rawLen) ==
    /\ proc.up /\ running = 0 /\ task[t].pc = "gs_tts"
    /\ SetTask(t, [task[t] EXCEPT !.pc = "gs_send", !.wavBuffer = WavOf(rawLen),
                                  !.chunkSize = CHUNK_SIZE, !.chunkIndex = 0])
    /\ running' = t
    /\ UNCHANGED <<conns, wsState, audioChunks, now, sent, window,
                   closedWith, msgCount, lateness, proc, gs, files, received>>

(* Line 469: if (chunkCount < BURST_CHUNKS) setImmediate, else setTimeout *)
InBurstInclusive(chunkCount) == chunkCount <= BURST_CHUNKS
InBurst(chunkCount) == chunkCount < BURST_CHUNKS

(* Lines 463-480: one call of sendNextChunk, by the callback itself, by    *)
(* setImmediate or by the 39 ms timer.  chunkIndex is chunkCount and       *)
(* offset is chunkCount * CHUNK_SIZE, the payload length at most.          *)
sendNextChunk(t) ==
    /\ proc.up
    /\ \/ running = t /\ task[t].pc = "gs_send"
       \/ running = 0 /\ task[t].pc = "gs_immediate"
       \/ StreamTimerDue(t) /\ task[t].pc = "gs_paced"
    /\ now' = IF task[t].pc = "gs_paced" THEN Max(now, task[t].wake) ELSE now
    /\ IF ChunkStart(task[t]) < task[t].wavBuffer.length
       THEN /\ Send(task[t].conn,
                    [Msg(task[t].conn, "bin", task[t].chunkIndex, ChunkStart(task[t]),
                         ChunkEnd(task[t]),
                         IF task[t].chunkIndex < BURST_CHUNKS THEN "burst" ELSE "paced",
                         t) EXCEPT !.at = now'])
            /\ SetTask(t, [task[t] EXCEPT
                              !.chunkIndex = @ + 1,
                              !.pc = IF InBurst(task[t].chunkIndex + 1)
                                     THEN "gs_immediate" ELSE "gs_paced",
                              !.wake = now' + StreamChunkIntervalMs])
       ELSE /\ Send(task[t].conn, TextMsg(task[t].conn, "done", t))
            /\ SetTask(t, [task[t] EXCEPT !.pc = "finished"])
    /\ running' = 0
    /\ UNCHANGED <<conns, wsState, audioChunks, window,
                   closedWith, msgCount, lateness, proc, gs, files, received>>

InitStream ==
    /\ conns = {1}
    /\ wsState = [c \in ConnIds |-> IF c = 1 THEN "OPEN" ELSE "CLOSED"]
    /\ audioChunks = [c \in ConnIds |-> <<>>]
    /\ task = [t \in TaskIds |-> IdleTask]
    /\ running = 0
    /\ now = 0
    /\ sent = [c \in ConnIds |-> <<>>]
    /\ window = [c \in ConnIds |-> <<>>]
    /\ closedWith = [c \in ConnIds |-> <<>>]
    /\ msgCount = [c \in ConnIds |-> 0]
    /\ lateness = 0
    /\ proc = ProcUp
    /\ gs = [NoStream EXCEPT !.stream = "open"]
    /\ files = NoFiles
    /\ received = [c \in ConnIds |-> <<>>]

NextStream ==
    \/ StreamOnMessage(1, TRUE, CHUNK_SIZE, "")
    \/ StreamOnMessage(1, FALSE, 0, "done")
    \/ \E isFinal \in BOOLEAN : StreamOnData(1, isFinal)
    \/ StreamOnError(1)
    \/ SocketClosing(1)
    \/ StreamOnClose(1)
    \/ \E t \in TaskIds : ReplyCallback(t)
    \/ \E t \in TaskIds, ok \in BOOLEAN : StreamChatResolve(t, ok)
    \/ \E t \in TaskIds : StreamJsonResolve(t)
    \/ \E t \in TaskIds, fatal \in BOOLEAN : StreamCallbackThrows(t, fatal)
    \/ \E t \in TaskIds, rawLen \in RawLens : StreamTtsResolve(t, rawLen)
    \/ \E t \in TaskIds : sendNextChunk(t)

SpecStream == InitStream /\ [][NextStream]_vars

(* The delivery of sendNextChunk for replies around the length of the      *)
(* burst: the callback is waiting for the synthesized reply.               *)
BurstRawLens ==
    {0,
     BURST_CHUNKS * CHUNK_SIZE - WavHeaderLen,
     BURST_CHUNKS * CHUNK_SIZE - WavHeaderLen + 1,
     (BURST_CHUNKS + 2) * CHUNK_SIZE}

InitBurst ==
    /\ conns = {1}
    /\ wsState = [c \in ConnIds |-> IF c = 1 THEN "OPEN" ELSE "CLOSED"]
    /\ audioChunks = [c \in ConnIds |-> <<>>]
    /\ task = [t \in TaskIds |->
                 IF t = 1
                 THEN [IdleTask EXCEPT !.pc = "gs_tts", !.conn = 1, !.doneMsg = 1]
                 ELSE IdleTask]
    /\ running = 0
    /\ now = ReplyDelayMs
    /\ sent = [c \in ConnIds |-> <<>>]
    /\ window = [c \in ConnIds |-> <<>>]
    /\ closedWith = [c \in ConnIds |-> <<>>]
    /\ msgCount = [c \in ConnIds |-> 1]
    /\ lateness = 0
    /\ proc = ProcUp
    /\ gs = [NoStream EXCEPT !.stream = "ended", !.sttFinalized = TRUE,
                             !.sttTranscript = 1]
    /\ files = NoFiles
    /\ received = [c \in ConnIds |-> <<>>]

NextBurst ==
    \/ \E rawLen \in BurstRawLens : StreamTtsResolve(1, rawLen)
    \/ sendNextChunk(1)
    \/ SocketClosing(1)
    \/ StreamOnClose(1)

SpecBurst == InitBurst /\ [][NextBurst]_vars

----------------------------------------------------------------------------
(* The reply-to-sender server without pacing (src/unnamed/part_004 59-140, *)
(* the same handler as src/server.js 21-102): the message handler up to    *)
(* the speech fetch is the one above; the reply is sent with one ws.send,  *)
(* and there is no finally block.                                          *)

(* Lines 116-122: ws.send(wavBuffer, { binary: true }); await fs.unlink *)
ReplyArrayBufferResolve(t, buf) ==
    /\ proc.up /\ running = 0 /\ task[t].pc = "arrayBuffer"
    /\ Send(task[t].conn, Msg(task[t].conn, "bin", 0, 0, buf.length, "whole", t))
    /\ SetTask(t, [task[t] EXCEPT !.pc = "unlink", !.wavBuffer = buf])
    /\ UNCHANGED <<conns, wsState, audioChunks, running, now, window, closedWith,
                   msgCount, lateness, proc, gs, files, received>>

(* Lines 122-123: fs.unlink resolves, the handler returns *)
ReplyUnlinkResolve(t) ==
    /\ proc.up /\ running = 0 /\ task[t].pc = "unlink"
    /\ SetTask(t, [task[t] EXCEPT !.pc = "finished"])
    /\ UNCHANGED <<conns, wsState, audioChunks, running, now, sent, window,
                   closedWith, msgCount, lateness, proc, gs, files, received>>

(* Lines 124-131: catch (err) { ws.send('Error: ' + err.message) } *)
ReplyStageFails(t) ==
    /\ proc.up /\ running = 0
    /\ task[t].pc \in {"stt", "chat", "tts", "ttsErrText", "arrayBuffer", "unlink"}
    /\ Send(task[t].conn, TextMsg(task[t].conn, "error", t))
    /\ SetTask(t, [task[t] EXCEPT !.pc = "finished", !.failedAt = task[t].pc])
    /\ UNCHANGED <<conns, wsState, audioChunks, running, now, window, closedWith,
                   msgCount, lateness, proc, gs, files, received>>

NextReply ==
    \/ \E len \in FrameLens : OnBinary(1, len)
    \/ \E text \in Texts : OnText(1, text)
    \/ SocketClosing(1)
    \/ OnClose(1)
    \/ \E t \in TaskIds : WriteFileResolve(t)
    \/ \E t \in TaskIds, fatal \in BOOLEAN : WriteFileReject(t, fatal)
    \/ \E t \in TaskIds : SttResolve(t)
    \/ \E t \in TaskIds : ChatResolve(t)
    \/ \E t \in TaskIds, ok \in BOOLEAN : TtsResolve(t, ok)
    \/ \E t \in TaskIds : ReplyStageFails(t)
    \/ \E t \in TaskIds, buf \in Replies : ReplyArrayBufferResolve(t, buf)
    \/ \E t \in TaskIds : ReplyUnlinkResolve(t)

SpecReply == Init /\ [][NextReply]_vars

----------------------------------------------------------------------------
(* The per-chunk transcription server (src/unnamed/part_000): every binary *)
(* message is appended to one debug file and posted to the transcription   *)
(* service on its own; a text message is echoed.  Two clients.             *)

StreamFile == [name |-> "received_audio_stream.wav", n |-> 0]

(* Lines 22-48: appendFileSync, the form, await axios.post(...) *)
PerChunkOnBinary(c, len) ==
    /\ proc.up /\ running = 0 /\ c \in conns /\ IsOpen(c)
    /\ msgCount[c] < MaxMsgs /\ FreeTasks # {}
    /\ LET frame == [id |-> msgCount[c] + 1, len |-> len, conn |-> c]
       IN  /\ SetTask(NewTask, [IdleTask EXCEPT !.pc = "stt", !.conn = c,
                                   !.fullBuf = BufferConcat(<<frame>>),
                                   !.expect = BufferConcat(<<frame>>),
                                   !.doneMsg = msgCount[c] + 1,
                                   !.called = {"stt"}])
           /\ received' = [received EXCEPT ![c] = Append(@, frame)]
    /\ files' = WriteFile(files, StreamFile, c)
    /\ msgCount' = [msgCount EXCEPT ![c] = @ + 1]
    /\ UNCHANGED <<conns, wsState, audioChunks, running, now, sent, window,
                   closedWith, lateness, proc, gs>>

(* Lines 50-55: ws.send(transcript || ...) or, in the catch,               *)
(* ws.send('Transcription failed.')                                        *)
PerChunkPostSettles(t, ok) ==
    /\ proc.up /\ running = 0 /\ task[t].pc = "stt"
    /\ Send(task[t].conn, TextMsg(task[t].conn, IF ok THEN "transcript" ELSE "error", t))
    /\ SetTask(t, [task[t] EXCEPT !.pc = "finished",
                                  !.failedAt = IF ok THEN "none" ELSE "stt"])
    /\ UNCHANGED <<conns, wsState, audioChunks, running, now, window, closedWith,
                   msgCount, lateness, proc, gs, files, received>>

(* Lines 56-59: ws.send('Echo: ' + message) *)
PerChunkOnText(c) ==
    /\ proc.up /\ running = 0 /\ c \in conns /\ IsOpen(c)
    /\ msgCount[c] < MaxMsgs
    /\ msgCount' = [msgCount EXCEPT ![c] = @ + 1]
    /\ Send(c, TextMsg(c, "echo", 0))
    /\ UNCHANGED <<conns, wsState, audioChunks, task, running, now, window,
                   closedWith, lateness, proc, gs, files, received>>

(* Lines 62-64: ws.on('close') only logs *)
PerChunkOnClose(c) ==
    /\ proc.up /\ running = 0 /\ c \in conns /\ wsState[c] = "CLOSING"
    /\ wsState' = [wsState EXCEPT ![c] = "CLOSED"]
    /\ UNCHANGED <<conns, audioChunks, task, running, now, sent, window, closedWith,
                   msgCount, lateness, proc, gs, files, received>>

InitTwo ==
    /\ conns = ConnIds
    /\ wsState = [c \in ConnIds |-> "OPEN"]
    /\ audioChunks = [c \in ConnIds |-> <<>>]
    /\ task = [t \in TaskIds |-> IdleTask]
    /\ running = 0
    /\ now = 0
    /\ sent = [c \in ConnIds |-> <<>>]
    /\ window = [c \in ConnIds |-> <<>>]
    /\ closedWith = [c \in ConnIds |-> <<>>]
    /\ msgCount = [c \in ConnIds |-> 0]
    /\ lateness = 0
    /\ proc = ProcUp
    /\ gs = NoStream
    /\ files = NoFiles
    /\ received = [c \in ConnIds |-> <<>>]

NextPerChunk ==
    \/ \E c \in ConnIds, len \in FrameLens : PerChunkOnBinary(c, len)
    \/ \E c \in ConnIds : PerChunkOnText(c)
    \/ \E t \in TaskIds, ok \in BOOLEAN : PerChunkPostSettles(t, ok)
    \/ \E c \in ConnIds : SocketClosing(c)
    \/ \E c \in ConnIds : PerChunkOnClose(c)

SpecPerChunk == InitTwo /\ [][NextPerChunk]_vars

----------------------------------------------------------------------------
(* The plan of sendWavBufferPaced for every header: the call runs to the   *)
(* end of line 163 on an open socket.                                      *)

SampleRates == {0, 8000, 16000, 22050, 24000, 44100, 48000}
BitDepths == {0, 4, 8, 12, 16, 24, 32}
PlanChunkSizes == {1, 48, 512, CHUNK_SIZE, 2 * CHUNK_SIZE}
Headers ==
    {[channels |-> 1, sampleRate |-> sr, bitsPerSample |-> b] :
        sr \in SampleRates, b \in BitDepths}
PlanInputs ==
    {<<[chunkSize |-> S, burst |-> <<4, 5>>, handshakeTimeoutMs |-> 0],
       Payload(WavHeaderLen + 3 * S, h)>> : S \in PlanChunkSizes, h \in Headers}

InitPlan ==
    /\ InitSend(PlanInputs, {0})
    /\ IsOpen(1)

NextPlan == SwEntry(1)

SpecPlan == InitPlan /\ [][NextPlan]_vars

----------------------------------------------------------------------------
(* The WAV header utility, byte by byte.  A byte string is a sequence of   *)
(* numbers 0..255; offsets are the source's (from 0).                      *)

MaxPcmLen == 2

RIFF == <<82, 73, 70, 70>>
WAVE == <<87, 65, 86, 69>>
FMT == <<102, 109, 116, 32>>
DATA == <<100, 97, 116, 97>>
RangeError == <<-1>>

BufferAlloc(n) == [i \in 1..n |-> 0]

(* buf.write(string, offset) and the stores of buf.writeUIntNNLE *)
BufWrite(buf, bytes, offset) ==
    [i \in 1..Len(buf) |->
        IF i > offset /\ i <= offset + Len(bytes) THEN bytes[i - offset] ELSE buf[i]]

UInt16LE(v) == <<v % 256, (v \div 256) % 256>>
UInt32BE(v) ==
    <<(v \div 16777216) % 256, (v \div 65536) % 256, (v \div 256) % 256, v % 256>>
UInt32LE(v) ==
    <<v % 256, (v \div 256) % 256, (v \div 65536) % 256, (v \div 16777216) % 256>>

(* buf.writeUInt16LE(num / den, offset): a value outside 0..65535 throws,  *)
(* a fraction is stored rounded down.  The values written with             *)
(* writeUInt32LE stay below 2^31 here, so only the sign is checked.        *)
FitsUInt16(num, den) == num >= 0 /\ num <= 65535 * den
FitsUInt32(num, den) == num >= 0
writeUInt16LE(buf, num, den, offset) == BufWrite(buf, UInt16LE(num \div den), offset)
writeUInt32LE(buf, num, den, offset) == BufWrite(buf, UInt32LE(num \div den), offset)

readUInt16LE(buf, offset) == buf[offset + 1] + 256 * buf[offset + 2]
readUInt32LE(buf, offset) ==
    buf[offset + 1] + 256 * buf[offset + 2] + 65536 * buf[offset + 3]
        + 16777216 * buf[offset + 4]

addWavHeader(buffer, options) ==
    LET numChannels == options.numChannels
        sampleRate == options.sampleRate
        bitDepth == options.bitDepth
        h0 == BufWrite(BufferAlloc(WavHeaderLen), RIFF, 0)
        h1 == writeUInt32LE(h0, 36 + Len(buffer), 1, 4)
        h2 == BufWrite(h1, WAVE, 8)
        h3 == BufWrite(h2, FMT, 12)
        h4 == writeUInt32LE(h3, 16, 1, 16)
        h5 == writeUInt16LE(h4, 1, 1, 20)
        h6 == writeUInt16LE(h5, numChannels, 1, 22)
        h7 == writeUInt32LE(h6, sampleRate, 1, 24)
        h8 == writeUInt32LE(h7, sampleRate * numChannels * bitDepth, 8, 28)
        h9 == writeUInt16LE(h8, numChannels * bitDepth, 8, 32)
        h10 == writeUInt16LE(h9, bitDepth, 1, 34)
        h11 == BufWrite(h10, DATA, 36)
        header == writeUInt32LE(h11, Len(buffer), 1, 40)
    IN  IF /\ FitsUInt16(numChannels, 1) /\ FitsUInt16(bitDepth, 1)
           /\ FitsUInt16(numChannels * bitDepth, 8)
           /\ FitsUInt32(sampleRate, 1)
           /\ FitsUInt32(sampleRate * numChannels * bitDepth, 8)
        THEN header \o buffer
        ELSE RangeError

(* The payload of the delivery model for a byte string: what               *)
(* parseWavHeader reads at offsets 22, 24 and 34.                          *)
BufferOf(bytes) ==
    Payload(Len(bytes),
            IF Len(bytes) < WavHeaderLen THEN OutOfBounds
            ELSE [channels |-> readUInt16LE(bytes, 22),
                  sampleRate |-> readUInt32LE(bytes, 24),
                  bitsPerSample |-> readUInt16LE(bytes, 34)])

(* addWavHeader applied to every PCM string of up to MaxPcmLen bytes and   *)
(* every format, then parseWavHeader applied to what it returned.          *)
PcmBytes == {0, 255}
PcmBuffers == UNION {[1..n -> PcmBytes] : n \in 0..MaxPcmLen}
WavOptions ==
    {[numChannels |-> ch, sampleRate |-> sr, bitDepth |-> b] :
        ch \in {1, 2}, sr \in SampleRates, b \in BitDepths}

WavTask(buffer, options) ==
    [buffer |-> buffer, options |-> options, out |-> <<>>, parsed |-> NullHeader]
        @@ [IdleTask EXCEPT !.pc = "addWavHeader", !.conn = 1]

InitWav ==
    /\ \E buffer \in PcmBuffers, options \in WavOptions :
          task = [t \in TaskIds |->
                    IF t = 1 THEN WavTask(buffer, options) ELSE IdleTask]
    /\ conns = {1}
    /\ wsState = [c \in ConnIds |-> IF c = 1 THEN "OPEN" ELSE "CLOSED"]
    /\ audioChunks = [c \in ConnIds |-> <<>>]
    /\ running = 0
    /\ now = 0
    /\ sent = [c \in ConnIds |-> <<>>]
    /\ window = [c \in ConnIds |-> <<>>]
    /\ closedWith = [c \in ConnIds |-> <<>>]
    /\ msgCount = [c \in ConnIds |-> 0]
    /\ lateness = 0
    /\ proc = ProcUp
    /\ gs = NoStream
    /\ files = NoFiles
    /\ received = [c \in ConnIds |-> <<>>]

AddHeader(t) ==
    /\ task[t].pc = "addWavHeader"
    /\ SetTask(t, [task[t] EXCEPT
                      !.pc = "parseWavHeader",
                      !.out = addWavHeader(task[t].buffer, task[t].options)])
    /\ UNCHANGED <<conns, wsState, audioChunks, running, now, sent, window,
                   closedWith, msgCount, lateness, proc, gs, files, received>>

ParseHeader(t) ==
    /\ task[t].pc = "parseWavHeader"
    /\ SetTask(t, [task[t] EXCEPT
                      !.pc = "parsed",
                      !.parsed = parseWavHeader(BufferOf(task[t].out))])
    /\ UNCHANGED <<conns, wsState, audioChunks, running, now, sent, window,
                   closedWith, msgCount, lateness, proc, gs, files, received>>

NextWav ==
    \/ AddHeader(1)
    \/ ParseHeader(1)

SpecWav == InitWav /\ [][NextWav]_vars

----------------------------------------------------------------------------
(* What the client was sent *)

IsBin(m) == m.kind = "bin"
IsMarker(m) == m.kind = "marker"
Bins(c) == SelectSeq(sent[c], IsBin)
Markers(c) == SelectSeq(sent[c], IsMarker)
SliceLen(m) == Max(0, m.end - m.start)
Returned(t) == task[t].pc = "returned"

----------------------------------------------------------------------------
(* C1: on a socket that stays open, sendWavBufferPaced sends exactly       *)
(* ceil(L/S) binary chunks, each of length S except the last, which has    *)
(* length L mod S (S when S divides L), and then the completion marker,    *)
(* exactly once and last.  Stated when the call has returned with the      *)
(* socket still OPEN.                                                      *)
C1_ExactChunksThenMarker ==
    LET r == task[1]
        L == r.wavBuffer.length
        S == r.chunkSize
        n == (L + S - 1) \div S
    IN  (Returned(1) /\ IsOpen(1)) =>
            /\ Len(Bins(1)) = n
            /\ \A i \in 1..Len(Bins(1)) :
                  SliceLen(Bins(1)[i]) =
                      IF i < n \/ L % S = 0 THEN S ELSE L % S
            /\ Len(Markers(1)) = 1
            /\ Len(sent[1]) = n + 1
            /\ IsMarker(sent[1][Len(sent[1])])

(* C3: once a readyState check of the delivery has found the socket not    *)
(* OPEN, the delivery sends nothing more (no chunk, no marker), and no     *)
(* chunk index is ever sent twice.                                         *)
C3_NothingSentAfterClosedSeen ==
    /\ [][task[1].sawClosed => sent'[1] = sent[1]]_vars
    /\ [](\A i, j \in 1..Len(Bins(1)) : i < j => Bins(1)[i].idx < Bins(1)[j].idx)

C3_Witness ==
    /\ Returned(1) /\ task[1].sawClosed /\ task[1].aborted
    /\ Len(Bins(1)) >= 2
    /\ Len(Bins(1)) < task[1].totalChunks

(* C5: the burst phase sends chunks 0 .. burstChunks-1, with               *)
(* burstChunks = max(1, floor(totalChunks * burstPercent)), in one stretch *)
(* with no sleep between them; the paced phase sends the chunks from       *)
(* burstChunks on; every chunk is sent by one phase, in index order, none  *)
(* skipped.  The counts are stated for a delivery that was not aborted.    *)
C5_BurstThenPaced ==
    LET r == task[1]
        total == (r.wavBuffer.length + r.chunkSize - 1) \div r.chunkSize
        burst == Max(1, (total * r.burstNum) \div r.burstDen)
        b == Bins(1)
    IN  /\ \A i \in 1..Len(b) :
              /\ b[i].idx = i - 1
              /\ (b[i].phase = "burst") = (b[i].idx < burst)
              /\ (b[i].phase = "paced") = (b[i].idx >= burst)
              /\ (b[i].phase = "burst" => b[i].at = b[1].at)
        /\ (r.pc \in {"paced", "paced_sleep", "marker"} \/ (Returned(1) /\ ~r.aborted
                                                           /\ ~r.sawClosed))
              => /\ Cardinality({i \in 1..Len(b) : b[i].phase = "burst"}) = burst
        /\ (r.pc = "marker" \/ (Returned(1) /\ ~r.aborted /\ ~r.sawClosed))
              => {b[i].idx : i \in {k \in 1..Len(b) : b[k].phase = "paced"}}
                    = {k \in 0..(total - 1) : k >= burst}

C5_Witness ==
    /\ Returned(1) /\ ~task[1].aborted
    /\ \E i \in 1..Len(Bins(1)) : Bins(1)[i].phase = "paced" /\ i >= 3
    /\ task[1].burstNum = 1 /\ task[1].burstDen = 2

(* C6 (as stated): for a 10000-byte reply, chunkSize 2048 and burst        *)
(* fraction 0.8, totalChunks = 5 and burstChunks = 4, chunks 0..3 are sent *)
(* at once, chunk 4 only one paced interval after chunk 3, and then the    *)
(* completion marker.                                                      *)
IsExampleSend(r) ==
    /\ r.wavBuffer = [length |-> 10000, hdr |-> PcmHeader]
    /\ r.chunkSize = 2048 /\ r.burstNum = 4 /\ r.burstDen = 5

(* C6 (as stated): chunk 4 leaves one paced interval after chunk 3.        *)
C6_Original ==
    LET r == task[1]
        b == Bins(1)
    IN  (IsExampleSend(r) /\ Returned(1) /\ IsOpen(1)) =>
            /\ r.totalChunks = 5 /\ r.burstChunks = 4
            /\ Len(b) = 5
            /\ \A i \in 1..4 : b[i].at = b[1].at
            /\ b[5].at - b[4].at >= 43
            /\ IsMarker(sent[1][Len(sent[1])])

(* C6 (amended): ... chunks 0..3 and chunk 4 are all sent at once, in the  *)
(* same stretch; the paced interval (43 ms) is slept after chunk 4, so the *)
(* completion marker follows chunk 4 by at least one paced interval.       *)
C6_FifthChunkAtOnceThenInterval ==
    LET r == task[1]
        b == Bins(1)
    IN  (IsExampleSend(r) /\ Returned(1) /\ IsOpen(1)) =>
            /\ r.totalChunks = 5 /\ r.burstChunks = 4 /\ r.chunkIntervalMs = 43
            /\ Len(b) = 5
            /\ \A i \in 1..5 : b[i].at = b[1].at /\ b[i].idx = i - 1
            /\ \A i \in 1..5 : (b[i].phase = "paced") = (i = 5)
            /\ Len(sent[1]) = 6
            /\ IsMarker(sent[1][6])
            /\ sent[1][6].at - b[5].at >= 43

C6_Witness ==
    /\ IsExampleSend(task[1]) /\ Returned(1) /\ IsOpen(1)
    /\ Len(Markers(1)) = 1

(* C7: two consecutive chunks of the paced phase are sent at least         *)
(* chunkIntervalMs apart, and after a paced send the scheduler sleeps      *)
(* max(0, chunkIntervalMs - elapsed), elapsed being the time the send took.*)
C7_PacedGap ==
    LET r == task[1]
        b == Bins(1)
    IN  /\ \A i \in 1..(Len(b) - 1) :
              (b[i].phase = "paced" /\ b[i + 1].phase = "paced")
                  => b[i + 1].at - b[i].at >= r.chunkIntervalMs
        /\ r.pc = "paced_sleep" =>
              r.wake - now = Max(0, r.chunkIntervalMs - (now - b[Len(b)].at))

C7_Witness ==
    /\ task[1].chunkIntervalMs >= 43
    /\ \E i \in 1..(Len(Bins(1)) - 1) :
          /\ Bins(1)[i].phase = "paced" /\ Bins(1)[i + 1].phase = "paced"
          /\ Bins(1)[i + 1].at - Bins(1)[i].at = task[1].chunkIntervalMs

(* C8: when the client never sends 'ready' and the socket stays open, the  *)
(* call still returns, having sent every chunk and then the completion     *)
(* marker, the first chunk no earlier than handshakeTimeoutMs after the    *)
(* wait began.                                                             *)
DeliveredAfterTimeout ==
    LET r == task[1]
        b == Bins(1)
    IN  /\ Returned(1)
        /\ \A k \in 0..(r.totalChunks - 1) :
              \E i \in 1..Len(b) :
                  /\ b[i].idx = k /\ b[i].start = k * r.chunkSize
                  /\ b[i].end = Min((k + 1) * r.chunkSize, r.wavBuffer.length)
        /\ Len(b) >= 1 /\ b[1].at - r.startWait >= r.handshakeTimeoutMs
        /\ Len(Markers(1)) = 1
        /\ IsMarker(sent[1][Len(sent[1])])

(* C8: a delivery whose socket stays open and whose client never sends     *)
(* 'ready' eventually completes after the handshake timeout.               *)
C8_NoReadyStillDelivers ==
    ([]IsOpen(1) /\ []~task[1].readyReceived) => <>DeliveredAfterTimeout

C8_Witness ==
    /\ DeliveredAfterTimeout /\ IsOpen(1) /\ ~task[1].readyReceived
    /\ task[1].handshakeTimeoutMs = HandshakeTimeoutMsDefault
    /\ task[1].totalChunks = 5
    /\ Bins(1)[1].at >= HandshakeTimeoutMsDefault

----------------------------------------------------------------------------
(* The session *)

Finalizing(c) == {t \in TaskIds : task[t].conn = c /\ InProgress(t)}

(* C2: per session at most one finalize is being processed: after a "done" *)
(* has been accepted, no message arriving while that finalize is still in  *)
(* progress starts a second pipeline on the same connection.               *)
C2_OneFinalizeInProgress ==
    \A c \in ConnIds : Cardinality(Finalizing(c)) <= 1

(* C4: a finalize whose accumulated audio has zero bytes (also when only   *)
(* zero-length frames were received) is answered by the "no audio" signal  *)
(* and reaches no collaborator.                                            *)
C4_NoBytesNoCollaborator ==
    \A t \in TaskIds :
        (task[t].pc # "idle" /\ ByteLength(task[t].fullBuf) = 0)
            => task[t].called = {}

(* C9: when the connection closes while the session holds audio that no    *)
(* "done" has finalized, that audio is handed to a finalize (it is not     *)
(* discarded).                                                             *)
C9_CloseFinalizesHeldAudio ==
    \A c \in ConnIds :
        (wsState[c] = "CLOSED" /\ BufferConcat(closedWith[c]) # <<>>)
            => \E t \in TaskIds :
                  /\ task[t].conn = c /\ task[t].pc # "idle"
                  /\ \A i \in 1..Len(closedWith[c]) :
                        closedWith[c][i].len > 0
                            => \E k \in 1..Len(task[t].fullBuf) :
                                  task[t].fullBuf[k] = closedWith[c][i]

(* C10: the payload handed to the transcription service is exactly the     *)
(* concatenation, in arrival order, of the frames received on the          *)
(* connection since its previous finalize (or since it opened).            *)
C10_PayloadIsFramesSinceLastFinalize ==
    \A t \in TaskIds :
        "stt" \in task[t].called => task[t].fullBuf = task[t].expect

----------------------------------------------------------------------------
(* Failures of the collaborators *)

(* The awaits of the transcription, reply-generation and speech-synthesis  *)
(* calls, in the paced server and in the streaming-recognition server.     *)
CollaboratorAwaits ==
    {"stt", "chat", "tts", "ttsErrText", "arrayBuffer",
     "gs_chat", "gs_chatErrText", "gs_chatJson", "gs_tts"}

SentBy(t, kinds) ==
    IF task[t].conn \notin ConnIds THEN {}
    ELSE {i \in 1..Len(sent[task[t].conn]) :
            sent[task[t].conn][i].task = t /\ sent[task[t].conn][i].kind \in kinds}

(* C11: when the transcription, the reply generation or the speech         *)
(* synthesis of a finalize fails, no binary chunk and no completion marker *)
(* of that reply is sent, and exactly one text error message is.           *)
C11_FailureOneErrorNoAudio ==
    \A t \in TaskIds :
        task[t].failedAt \in CollaboratorAwaits =>
            /\ SentBy(t, {"bin", "marker", "done"}) = {}
            /\ Cardinality(SentBy(t, {"error"})) = 1

(* The frames connection c received after its k-th message *)
ReceivedAfter(c, k) ==
    LET After(f) == f.id > k
    IN  SelectSeq(received[c], After)

DoneAfter(c, k) == {u \in TaskIds : task[u].conn = c /\ task[u].doneMsg > k}

(* C12: after a collaborator failure has been answered with the error      *)
(* text, the connection stays usable: until the next "done" is accepted,   *)
(* the session holds exactly the frames received after the error, so that  *)
(* a new "done" finalizes those frames and only those.                     *)
C12_UsableAfterError ==
    \A t \in TaskIds :
        \A i \in SentBy(t, {"error"}) :
            LET c == task[t].conn
                k == sent[c][i].idx
            IN  (task[t].failedAt \in CollaboratorAwaits /\ IsOpen(c)
                    /\ DoneAfter(c, k) = {})
                    => BufferConcat(audioChunks[c]) = BufferConcat(ReceivedAfter(c, k))

(* The awaits of the paced server's three collaborator calls *)
StageAwaits == {"stt", "chat", "tts", "ttsErrText", "arrayBuffer"}

AtStage(c) == {t \in TaskIds : task[t].conn = c /\ task[t].pc \in StageAwaits}

(* C13: within one session at most one collaborator call is in flight at   *)
(* any time, the calls are made in the order transcription, reply          *)
(* generation, speech synthesis, and no chunk of a reply is sent before    *)
(* its speech synthesis has returned the payload.                          *)
C13_StagesSequential ==
    /\ \A c \in ConnIds : Cardinality(AtStage(c)) <= 1
    /\ \A t \in TaskIds :
          /\ "chat" \in task[t].called => "stt" \in task[t].called
          /\ "tts" \in task[t].called => "chat" \in task[t].called
          /\ SentBy(t, {"bin", "marker"}) # {} =>
                ("tts" \in task[t].called /\ task[t].pc \notin StageAwaits)

----------------------------------------------------------------------------
(* Draining *)

Completed == {"finished", "rejected"}

(* C14: once a finalize has completed, with a reply or with an error, the  *)
(* session holds none of the audio that finalize was started with: what it *)
(* holds was received after that finalize's "done", so a following "done"  *)
(* without new audio finds nothing and one with new audio takes only it.   *)
C14_DrainedAfterFinalize ==
    \A t \in TaskIds :
        task[t].pc \in Completed =>
            \A i \in 1..Len(audioChunks[task[t].conn]) :
                audioChunks[task[t].conn][i].id > task[t].doneMsg

----------------------------------------------------------------------------
(* Two sessions *)

(* C15: sessions are independent: a finalized payload holds only frames    *)
(* received on its own connection, whatever a handler invocation sends     *)
(* goes to the connection whose message started it, and no file is written *)
(* while handling two different connections.                               *)
C15_SessionsIndependent ==
    /\ \A t \in TaskIds : \A k \in 1..Len(task[t].fullBuf) :
          task[t].fullBuf[k].conn = task[t].conn
    /\ \A c \in ConnIds : \A i \in 1..Len(sent[c]) :
          sent[c][i].task # 0 => task[sent[c][i].task].conn = c
    /\ \A w1, w2 \in files : w1.file = w2.file => w1.conn = w2.conn

----------------------------------------------------------------------------
(* The plan of a delivery *)

(* The plan of lines 156-163 has been computed (burstChunks is at least 1) *)
Planned(r) == r.burstChunks >= 1

(* Byte k of the payload was sent in exactly one chunk *)
SentOnce(k) ==
    Cardinality({i \in 1..Len(Bins(1)) :
                    Bins(1)[i].start <= k /\ k < Bins(1)[i].end}) = 1

(* C16: for a payload shorter than 44 bytes parseWavHeader returns null     *)
(* without reading the buffer, the delivery is paced with the defaults     *)
(* 24000 Hz and 16 bits, and on a socket that stays open every byte of the *)
(* payload and then the completion marker are sent.                        *)
C16_ShortPayloadUsesDefaults ==
    LET r == task[1]
    IN  r.wavBuffer.length < WavHeaderLen =>
            /\ parseWavHeader(r.wavBuffer) = NullHeader
            /\ Planned(r) =>
                  r.chunkIntervalMs =
                      computeChunkIntervalMs(r.chunkSize, DefaultSampleRate,
                                             DefaultBitsPerSample)
            /\ (Returned(1) /\ IsOpen(1)) =>
                  /\ \A k \in 0..(r.wavBuffer.length - 1) : SentOnce(k)
                  /\ Len(Markers(1)) = 1
                  /\ IsMarker(sent[1][Len(sent[1])])

C16_Witness ==
    /\ Returned(1) /\ IsOpen(1)
    /\ task[1].wavBuffer.length = 4 /\ task[1].chunkSize = 1
    /\ task[1].wavBuffer.hdr = OutOfBounds
    /\ Len(Bins(1)) = 4 /\ Len(Markers(1)) = 1

(* round(a / b) for a >= 0 and b > 0, halves up; Infinity for b = 0 *)
Rounded(a, b) == IF b = 0 THEN InfinityMs ELSE (2 * a + b) \div (2 * b)

(* C17 (as stated): chunkIntervalMs is                                     *)
(* round(1000 * chunkSize / (sampleRate * bytesPerSample)) with            *)
(* bytesPerSample = bitsPerSample / 8 taken from the header.               *)
C17_Original ==
    LET r == task[1]
        h == r.wavBuffer.hdr
    IN  Planned(r) =>
            r.chunkIntervalMs =
                Rounded(8000 * r.chunkSize, h.sampleRate * h.bitsPerSample)

(* C17 (amended): chunkIntervalMs is                                       *)
(* round(1000 * chunkSize / (sampleRate * bytesPerSample)) with            *)
(* bytesPerSample = max(1, bitsPerSample / 8); for chunkSize 2048,         *)
(* 24000 Hz and 16 bits it is 43 ms.                                       *)
C17_IntervalFormula ==
    LET r == task[1]
        h == r.wavBuffer.hdr
    IN  Planned(r) =>
            /\ r.chunkIntervalMs =
                  Rounded(8000 * r.chunkSize, h.sampleRate * Max(8, h.bitsPerSample))
            /\ (r.chunkSize = 2048 /\ h.sampleRate = 24000 /\ h.bitsPerSample = 16)
                  => r.chunkIntervalMs = 43

C17_Witness ==
    /\ Planned(task[1]) /\ task[1].chunkSize = 2048
    /\ task[1].wavBuffer.hdr = PcmHeader /\ task[1].chunkIntervalMs = 43

----------------------------------------------------------------------------
(* C18: a failure that escapes a session's handler (the temp-file write    *)
(* before the try block rejecting) does not terminate the server: after    *)
(* any number of escaped failures the process is still up and serving.     *)
C18_EscapedFailureKeepsServing == proc.unhandled > 0 => proc.up

----------------------------------------------------------------------------
(* The fields of the header addWavHeader wrote, read back from its output *)
Written(r) == r.pc \in {"parseWavHeader", "parsed"}
DataLen(r) == Len(r.buffer)
HeaderFields(r) ==
    /\ Len(r.out) = 44 + DataLen(r)
    /\ SubSeq(r.out, 1, 4) = RIFF /\ SubSeq(r.out, 9, 12) = WAVE
    /\ SubSeq(r.out, 13, 16) = FMT /\ SubSeq(r.out, 37, 40) = DATA
    /\ readUInt32LE(r.out, 4) = 36 + DataLen(r)
    /\ readUInt32LE(r.out, 16) = 16
    /\ readUInt16LE(r.out, 20) = 1
    /\ readUInt32LE(r.out, 40) = DataLen(r)
    /\ SubSeq(r.out, 45, Len(r.out)) = r.buffer
RoundTrip(r) ==
    r.pc = "parsed" =>
        r.parsed = [channels |-> r.options.numChannels,
                    sampleRate |-> r.options.sampleRate,
                    bitsPerSample |-> r.options.bitDepth]

----------------------------------------------------------------------------
(* C20: the binary chunks sendWavBufferPaced sent, in send order, are the  *)
(* input buffer cut at multiples of the chunk size: the chunk sent i-th    *)
(* (from 0) carries bytes [i*S, min((i+1)*S, L)), every chunk starts where *)
(* the one before it ended, in the burst loop, in the paced loop and       *)
(* across the two, and when the call has returned without having seen the  *)
(* socket closed the chunks end at L, so that their concatenation is the   *)
(* buffer byte for byte.                                                   *)
C20_ChunksConcatenateToInput ==
    LET r == task[1]
        L == r.wavBuffer.length
        S == r.chunkSize
        bins == Bins(1)
    IN  /\ \A i \in 1..Len(bins) :
              /\ bins[i].open /\ bins[i].task = 1
              /\ bins[i].start = (i - 1) * S
              /\ bins[i].end = Min(i * S, L)
              /\ bins[i].start = IF i = 1 THEN 0 ELSE bins[i - 1].end
              /\ bins[i].start <= bins[i].end
        /\ (Returned(1) /\ ~r.aborted /\ ~r.sawClosed) =>
              /\ Len(bins) >= 1
              /\ bins[Len(bins)].end = L

C20_Witness ==
    /\ Returned(1) /\ ~task[1].aborted /\ ~task[1].sawClosed
    /\ task[1].chunkSize = 48 /\ task[1].wavBuffer.length = 97
    /\ Len(Bins(1)) = 3
    /\ Bins(1)[1].phase = "burst" /\ Bins(1)[2].phase = "paced"
    /\ Bins(1)[3].end = 97

----------------------------------------------------------------------------
(* C21: sendWavBufferPaced sends no audio chunk before the readiness       *)
(* handshake is resolved: at the step that sends the first chunk the       *)
(* delivery has observed 'ready' or the handshake timeout has elapsed      *)
(* since the wait began.                                                   *)
HandshakeResolved(r) ==
    r.readyReceived \/ now - r.startWait >= r.handshakeTimeoutMs

C21_NoChunkBeforeHandshake ==
    [][(Len(Bins(1)') > Len(Bins(1))) => HandshakeResolved(task[1])]_vars

C21_Witness ==
    /\ Len(Bins(1)) >= 1
    /\ task[1].handshakeTimeoutMs > 0
    /\ task[1].readyReceived
    /\ Bins(1)[1].at - task[1].startWait < task[1].handshakeTimeoutMs

----------------------------------------------------------------------------
(* C22: a 'ready' the client sent after its "done" is honoured by the      *)
(* delivery of that reply, also when it arrived while the collaborator     *)
(* calls were still in flight: a delivery that is waiting in the handshake *)
(* loop knows of every 'ready' its connection received since the "done"    *)
(* that started it.                                                        *)
ReadySince(c, k) ==
    \E i \in 1..Len(received[c]) :
        /\ received[c][i].id > k
        /\ "text" \in DOMAIN received[c][i]

C22_EarlyReadyHonoured ==
    \A t \in TaskIds :
        (task[t].pc = "hs_sleep" /\ ReadySince(task[t].conn, task[t].doneMsg))
            => task[t].readyReceived

----------------------------------------------------------------------------
(* C23: for every payload length, 0 and lengths below one chunk included,  *)
(* burstChunks never exceeds totalChunks, the burst loop never sends a     *)
(* chunk index >= totalChunks, and no zero-length binary frame is sent.    *)
C23_BurstWithinTotal ==
    LET r == task[1]
    IN  Planned(r) =>
            /\ r.burstChunks <= r.totalChunks
            /\ \A i \in 1..Len(Bins(1)) :
                  /\ Bins(1)[i].idx < r.totalChunks
                  /\ SliceLen(Bins(1)[i]) > 0

----------------------------------------------------------------------------
(* C24: for each accepted finalize the client receives exactly one         *)
(* terminal outcome, an error text or the completion marker after the full *)
(* reply: never both (no error text after the marker of the same reply),   *)
(* one of them once the finalize has ended on an open socket, and the      *)
(* marker only after every chunk of a delivery that was not aborted.       *)
Outcomes(t) == SentBy(t, {"error", "marker"})
Ended(t) == task[t].pc \in {"finished", "rejected"}

C24_OneTerminalOutcome ==
    \A t \in TaskIds :
        /\ Cardinality(Outcomes(t)) <= 1
        /\ (Ended(t) /\ IsOpen(task[t].conn)) => Cardinality(Outcomes(t)) = 1
        /\ SentBy(t, {"marker"}) # {} =>
              /\ ~task[t].aborted
              /\ task[t].chunkIndex >= task[t].totalChunks
              /\ Cardinality(SentBy(t, {"bin"})) = Max(1, task[t].totalChunks)

----------------------------------------------------------------------------
(* C25: every call of sendWavBufferPaced eventually returns, whether or    *)
(* not 'ready' arrives and whether or not the socket closes at any point,  *)
(* and once it has returned the handshake listener it registered is no     *)
(* longer attached.                                                        *)
C25_ReturnsAndRemovesListener ==
    /\ <>Returned(1)
    /\ [](Returned(1) => ~task[1].listening)

C25_Witness ==
    /\ Returned(1) /\ Planned(task[1]) /\ ~task[1].listening
    /\ task[1].aborted /\ Len(Bins(1)) >= 1
    /\ ~task[1].readyReceived /\ task[1].handshakeTimeoutMs > 0

----------------------------------------------------------------------------
(* C26: the chunk interval used for pacing is a finite positive number of  *)
(* milliseconds for every header of 44 bytes or more, a sample rate or a   *)
(* bit depth of 0 and bit depths that are not a multiple of 8 included.    *)
C26_IntervalFinitePositive ==
    LET r == task[1]
    IN  (Planned(r) /\ r.wavBuffer.length >= WavHeaderLen) =>
            /\ r.chunkIntervalMs > 0
            /\ r.chunkIntervalMs < InfinityMs

----------------------------------------------------------------------------
(* C27: in the timer-driven delivery of sendNextChunk on a socket that     *)
(* stays open, the chunks are sent in order, chunk i carrying bytes        *)
(* [i*2048, min((i+1)*2048, L)); the first BURST_CHUNKS (60) chunks are    *)
(* sent with no timed delay between them and every later chunk             *)
(* chunkIntervalMs (39 ms) after the one before it; when the delivery is   *)
(* over, ceil(L/2048) chunks have been sent and the text "done" has been   *)
(* sent exactly once, after the last chunk.                                *)
AllOpen(c) == \A i \in 1..Len(sent[c]) : sent[c][i].open

----------------------------------------------------------------------------
(* C28: in the timer-driven delivery of sendNextChunk, once the connection *)
(* has closed no further chunk or "done" is sent on that socket and the    *)
(* chain of setImmediate / setTimeout calls is not armed again.            *)
ChainArmed(r) == r.pc \in {"gs_immediate", "gs_paced"}

C28_TimersStopAfterClose ==
    [][wsState[1] = "CLOSED" =>
          /\ sent'[1] = sent[1]
          /\ task'[1] # task[1] => ~ChainArmed(task'[1])]_vars

----------------------------------------------------------------------------
(* C29: in the streaming-recognition server every binary frame received    *)
(* while the utterance is open (before "done") is written to the           *)
(* recognizer stream, also after an intermediate final result.             *)
C29_FramesReachRecognizer ==
    \A i \in 1..Len(gs.heard) :
        \E j \in 1..Len(gs.written) : gs.written[j] = gs.heard[i]

====
